---- MODULE Spec2Model ----
(***************************************************************************)
(* add_learning_entry.py: append a dated trigger/pattern/action entry to   *)
(* <repo-root>/learning.md, creating the file with a header when absent.   *)
(*                                                                         *)
(* Text is modelled character by character: a str (and the bytes of a      *)
(* file, all characters used here being one UTF-8 byte each) is a sequence *)
(* of one-character strings.  A path is the sequence of its components, an *)
(* absolute path starting with the component "/".  The platform is POSIX:  *)
(* os.linesep is "\n".                                                     *)
(***************************************************************************)
EXTENDS Integers, Sequences, FiniteSets, TLC

\* ------------------------------------------------------------------ bounds
MaxCalls == 2
MaxMidnights == 1
NumProcs == 2

\* --------------------------------------------------------------- constants
ExitOk == 0
ExitFailure == 1

NL == "\n"
CR == "\r"
SP == " "

HeaderLine == <<"#", " ", "B", "e", "h", "a", "v", "i", "o", "r", " ", "L", "e", "a", "r", "n", "i", "n", "g", " ", "L", "o", "g">>
HeaderText == HeaderLine \o <<NL, NL>>
HeadingPrefix == <<"#", "#", " ", "L", "e", "a", "r", "n", "i", "n", "g", " ", "E", "n", "t", "r", "y", " ", "-", " ">>
DatePrefix == <<"-", " ", "D", "a", "t", "e", ":", " ">>
TriggerPrefix == <<"-", " ", "T", "r", "i", "g", "g", "e", "r", ":", " ">>
PatternPrefix == <<"-", " ", "P", "a", "t", "t", "e", "r", "n", ":", " ">>
ActionPrefix == <<"-", " ", "A", "c", "t", "i", "o", "n", ":", " ">>
InvalidRootMessage == "Invalid --repo-root directory: "
LogName == "learning.md"

\* ------------------------------------------------------------ str helpers
\* str.strip() removes leading and trailing whitespace; of the characters
\* used here the whitespace ones are space, line feed and carriage return.
IsSpace(c) == c \in {SP, NL, CR}

RECURSIVE LStrip(_)
LStrip(s) == IF s # <<>> /\ IsSpace(s[1]) THEN LStrip(Tail(s)) ELSE s

RECURSIVE RStrip(_)
RStrip(s) == IF s # <<>> /\ IsSpace(s[Len(s)]) THEN RStrip(SubSeq(s, 1, Len(s) - 1)) ELSE s

Strip(s) == RStrip(LStrip(s))

\* sep.join(lines)
RECURSIVE Join(_, _)
Join(sep, lines) ==
    IF lines = <<>> THEN <<>>
    ELSE IF Len(lines) = 1 THEN lines[1]
    ELSE lines[1] \o sep \o Join(sep, Tail(lines))

\* s.endswith(suffix)
EndsWith(s, suffix) ==
    /\ Len(suffix) <= Len(s)
    /\ SubSeq(s, Len(s) - Len(suffix) + 1, Len(s)) = suffix

\* s.count(pat) for a pattern that cannot overlap itself: the number of
\* positions where pat occurs
Occurs(pat, s, i) == s[i] = pat[1] /\ SubSeq(s, i, i + Len(pat) - 1) = pat
Count(pat, s) == Cardinality({ i \in 1..(Len(s) - Len(pat) + 1) : Occurs(pat, s, i) })

\* ------------------------------------------------------------------ dates
DigitChars == <<"0", "1", "2", "3", "4", "5", "6", "7", "8", "9">>

RECURSIVE Padded(_, _)
Padded(n, width) ==
    IF width = 0 THEN <<>>
    ELSE Padded(n \div 10, width - 1) \o <<DigitChars[(n % 10) + 1]>>

\* date.isoformat(): YYYY-MM-DD
Isoformat(d) == Padded(d.year, 4) \o <<"-">> \o Padded(d.month, 2) \o <<"-">> \o Padded(d.day, 2)

DaysInMonth(m) == IF m = 2 THEN 28 ELSE IF m \in {4, 6, 9, 11} THEN 30 ELSE 31

\* the calendar day after d (no leap year is reached within the bounds)
NextDay(d) ==
    IF d.day < DaysInMonth(d.month) THEN [d EXCEPT !.day = d.day + 1]
    ELSE IF d.month < 12 THEN [d EXCEPT !.month = d.month + 1, !.day = 1]
    ELSE [year |-> d.year + 1, month |-> 1, day |-> 1]

StartDate == [year |-> 2026, month |-> 12, day |-> 31]

\* ------------------------------------------------------------ build_entry
build_entry_NoStripAction(today, trigger, pattern, action) ==
    LET day == Isoformat(today)
        lines == << HeadingPrefix \o day,
                    DatePrefix \o day,
                    TriggerPrefix \o Strip(trigger),
                    PatternPrefix \o Strip(pattern),
                    ActionPrefix \o action,
                    <<>> >>
    IN  Join(<<NL>>, lines)

build_entry(today, trigger, pattern, action) ==
    LET day == Isoformat(today)
        lines == << HeadingPrefix \o day,
                    DatePrefix \o day,
                    TriggerPrefix \o Strip(trigger),
                    PatternPrefix \o Strip(pattern),
                    ActionPrefix \o Strip(action),
                    <<>> >>
    IN  Join(<<NL>>, lines)

\* ------------------------------------------------------------- file text
\* Path.read_text(encoding="utf-8") opens the file in text mode with
\* universal newlines: "\r\n" and a lone "\r" are both read as "\n".
ReadAt(bytes, i) ==
    IF bytes[i] = CR THEN <<NL>>
    ELSE IF bytes[i] = NL /\ i > 1 /\ bytes[i - 1] = CR THEN <<>>
    ELSE <<bytes[i]>>

RECURSIVE ReadRange(_, _, _)
ReadRange(bytes, lo, hi) ==
    IF lo > hi THEN <<>>
    ELSE IF lo = hi THEN ReadAt(bytes, lo)
    ELSE LET mid == (lo + hi) \div 2
         IN  ReadRange(bytes, lo, mid) \o ReadRange(bytes, mid + 1, hi)

ReadText(bytes) == ReadRange(bytes, 1, Len(bytes))

\* os.linesep
Linesep == <<NL>>

\* text-mode encoding on write: every "\n" is written as os.linesep
RECURSIVE EncodeRange(_, _, _)
EncodeRange(text, lo, hi) ==
    IF lo > hi THEN <<>>
    ELSE IF lo = hi THEN (IF text[lo] = NL THEN Linesep ELSE <<text[lo]>>)
    ELSE LET mid == (lo + hi) \div 2
         IN  EncodeRange(text, lo, mid) \o EncodeRange(text, mid + 1, hi)

Encode(text) == EncodeRange(text, 1, Len(text))

NoFile == [exists |-> FALSE, bytes |-> <<>>]

\* Path.write_text(text, encoding="utf-8"): mode "w" truncates the file
\* (creating it when absent) and writes the encoded text
WriteText_AppendMode(old, text) == [exists |-> TRUE, bytes |-> old.bytes \o Encode(text)]
WriteText(old, text) == [exists |-> TRUE, bytes |-> Encode(text)]

\* --------------------------------------------------------- append_learning
Prefix_NewlineFirst(content) ==
    IF EndsWith(content, <<NL>>) THEN <<NL>>
    ELSE IF EndsWith(content, <<NL, NL>>) THEN <<>>
    ELSE <<NL, NL>>

\* line 30: the separator put between the content read and the entry
Prefix(content) ==
    IF EndsWith(content, <<NL, NL>>) THEN <<>>
    ELSE IF EndsWith(content, <<NL>>) THEN <<NL>>
    ELSE <<NL, NL>>

AppendedText_Overwrite(content, entry) == Prefix(content) \o entry
\* line 31: the text written when learning.md exists
AppendedText(content, entry) == content \o Prefix(content) \o entry

CreatedText_NoHeader(entry) == entry
\* lines 33-34: the text written when learning.md does not exist
CreatedText(entry) == HeaderText \o entry

LearningPath(repo_root) == repo_root \o <<LogName>>

\* ------------------------------------------------------------ filesystem
Cwd == <<"/", "w">>
Home == <<"/", "home", "u">>
Dirs == {<<"/">>, Cwd, Home, <<"/", "home">>, <<"/", "w", "repo">>}
RegularFiles == {<<"/", "w", "notes.txt">>}

\* Path(arg).expanduser().resolve()
Resolve(arg) ==
    IF arg[1] = "/" THEN arg
    ELSE IF arg[1] = "~" THEN Home \o Tail(arg)
    ELSE Cwd \o arg

\* str(path)
RECURSIVE JoinStr(_)
JoinStr(parts) ==
    IF parts = <<>> THEN ""
    ELSE IF Len(parts) = 1 THEN parts[1]
    ELSE parts[1] \o "/" \o JoinStr(Tail(parts))

PathStr(path) == "/" \o JoinStr(Tail(path))

\* the --repo-root arguments tried
RootArgs == { <<"repo">>, <<"/", "w", "missing">>, <<"notes.txt">>, <<"~", "nope">> }

LogPaths == { LearningPath(Resolve(a)) : a \in RootArgs }
RepoLog == LearningPath(<<"/", "w", "repo">>)

\* line 54: the root is accepted when it exists and is a directory
PathExists(path) == path \in Dirs \cup RegularFiles
IsDir(path) == path \in Dirs
IsValidRoot_ExistsOnly(root) == PathExists(root)
IsValidRoot(root) == PathExists(root) /\ IsDir(root)

\* ----------------------------------------------------------------- inputs
\* the --trigger/--pattern/--action texts tried
Plain == [trigger |-> <<"a">>, pattern |-> <<"b">>, action |-> <<"c">>]
Spaced == [trigger |-> <<SP, "a", SP, "b", SP>>, pattern |-> <<NL, "b">>, action |-> <<"c", CR, NL>>]
Empty == [trigger |-> <<>>, pattern |-> <<SP, NL>>, action |-> <<>>]
Quoting == [trigger |-> <<"a", NL>> \o HeadingPrefix \o Isoformat(StartDate), pattern |-> <<"b">>, action |-> <<"c">>]
Carriage == [trigger |-> <<"a", CR, "b">>, pattern |-> <<"b">>, action |-> <<"c">>]
Gapped == [trigger |-> <<"a">>, pattern |-> <<"b", NL, NL, NL, "c">>, action |-> <<"c">>]
Titled == [trigger |-> <<"a">>, pattern |-> <<"b">>, action |-> HeaderLine]

TextArgs == {Plain, Spaced, Empty, Quoting, Carriage, Gapped, Titled}
RaceTextArgs == {Plain, Spaced}
RaceRootArgs == { <<"repo">>, <<"/", "w", "missing">> }

\* what learning.md may hold before the first invocation
File(bytes) == [exists |-> TRUE, bytes |-> bytes]
InitFiles == { NoFile, File(<<>>), File(<<"x">>), File(<<"x", NL>>), File(<<"x", NL, NL>>),
               File(<<"x", NL, NL, NL>>), File(<<NL>>), File(<<"x", CR, NL>>),
               File(HeadingPrefix \o <<"x", NL>>) }
RaceInitFiles == { NoFile, File(<<"x", NL>>) }

Procs == 1..NumProcs

\* ------------------------------------------------------------------ state
VARIABLES fs,        \* learning.md under every root tried: [exists, bytes]
          today,     \* date.today()
          midnights, \* how many times the date has changed
          calls,     \* sequential invocations made
          last,      \* the last sequential invocation: inputs, locals, outcome
          hist,      \* the successful sequential invocations, oldest first
          origin,    \* fs before the first invocation
          pc,        \* per concurrent process: its position in main
          loc        \* per concurrent process: its locals and outcome

vars == <<fs, today, midnights, calls, last, hist, origin, pc, loc>>

NoCall == [kind |-> "none", arg |-> <<>>, root |-> <<>>, args |-> Empty, date |-> StartDate,
           entry |-> <<>>, existed |-> FALSE, content |-> <<>>, before |-> fs,
           exit |-> ExitOk, stdout |-> <<>>, stderr |-> <<>>]

NoLocals == [root |-> <<>>, entry |-> <<>>, existed |-> FALSE, content |-> <<>>,
             exit |-> ExitOk, stdout |-> <<>>, stderr |-> <<>>]

InitWith(files) ==
    /\ fs \in { [p \in LogPaths |-> IF p = RepoLog THEN f ELSE NoFile] : f \in files }
    /\ today = StartDate
    /\ midnights = 0
    /\ calls = 0
    /\ last = [NoCall EXCEPT !.before = fs]
    /\ hist = <<>>
    /\ origin = fs
    /\ pc = [p \in Procs |-> "idle"]
    /\ loc = [p \in Procs |-> NoLocals]

Init == InitWith(InitFiles)

\* the local date changes between invocations
Midnight ==
    /\ midnights < MaxMidnights
    /\ midnights' = midnights + 1
    /\ today' = NextDay(today)
    /\ UNCHANGED <<fs, calls, last, hist, origin, pc, loc>>

\* ------------------------------------------------------- one run of main()
\* lines 50-64 with append_learning (lines 24-36) inlined; no other process
\* touches the file meanwhile
Invoke(arg, args) ==
    /\ calls < MaxCalls
    /\ calls' = calls + 1
    /\ LET root == Resolve(arg) IN
       IF ~IsValidRoot(root)
       THEN /\ last' = [NoCall EXCEPT !.kind = "invalid", !.arg = arg, !.root = root,
                               !.before = fs, !.date = today, !.exit = ExitFailure,
                               !.stderr = <<InvalidRootMessage \o PathStr(root)>>]
            /\ UNCHANGED <<fs, hist>>
       ELSE LET learning_path == LearningPath(root)
                entry == build_entry(today, args.trigger, args.pattern, args.action)
                existed == fs[learning_path].exists
                content == IF existed THEN ReadText(fs[learning_path].bytes) ELSE <<>>
                text == IF existed THEN AppendedText(content, entry) ELSE CreatedText(entry)
            IN  /\ fs' = [fs EXCEPT ![learning_path] = WriteText(fs[learning_path], text)]
                /\ last' = [kind |-> "ok", arg |-> arg, root |-> root, args |-> args,
                            date |-> today, entry |-> entry, existed |-> existed,
                            content |-> content, before |-> fs, exit |-> ExitOk,
                            stdout |-> <<PathStr(learning_path)>>, stderr |-> <<>>]
                /\ hist' = Append(hist, [args |-> args, date |-> today, entry |-> entry])
    /\ UNCHANGED <<today, midnights, origin, pc, loc>>

Next ==
    \/ \E arg \in RootArgs, args \in TextArgs : Invoke(arg, args)
    \/ Midnight

Spec == Init /\ [][Next]_vars

\* ------------------------------------------- concurrent runs of main()
\* Each process runs main() once; exists(), read_text() and write_text()
\* are separate calls, and other processes may run between them.

\* lines 51-55 and 25-26: resolve and check the root, build the entry
Begin(p, arg, args) ==
    /\ pc[p] = "idle"
    /\ LET root == Resolve(arg) IN
       IF ~IsValidRoot(root)
       THEN /\ pc' = [pc EXCEPT ![p] = "failed"]
            /\ loc' = [loc EXCEPT ![p] = [NoLocals EXCEPT !.root = root, !.exit = ExitFailure,
                                          !.stderr = <<InvalidRootMessage \o PathStr(root)>>]]
       ELSE /\ pc' = [pc EXCEPT ![p] = "exists"]
            /\ loc' = [loc EXCEPT ![p] = [NoLocals EXCEPT !.root = root,
                           !.entry = build_entry(today, args.trigger, args.pattern, args.action)]]
    /\ UNCHANGED <<fs, today, midnights, calls, last, hist, origin>>

\* line 28: learning_path.exists()
CheckExists(p) ==
    /\ pc[p] = "exists"
    /\ LET existed == fs[LearningPath(loc[p].root)].exists IN
       /\ loc' = [loc EXCEPT ![p].existed = existed]
       /\ pc' = [pc EXCEPT ![p] = IF existed THEN "read" ELSE "create"]
    /\ UNCHANGED <<fs, today, midnights, calls, last, hist, origin>>

\* line 29: content = learning_path.read_text()
ReadContent(p) ==
    /\ pc[p] = "read"
    /\ loc' = [loc EXCEPT ![p].content = ReadText(fs[LearningPath(loc[p].root)].bytes)]
    /\ pc' = [pc EXCEPT ![p] = "write"]
    /\ UNCHANGED <<fs, today, midnights, calls, last, hist, origin>>

\* lines 30-31, then 36 and 63-64: write content + prefix + entry, print the path
WriteAppended(p) ==
    /\ pc[p] = "write"
    /\ LET learning_path == LearningPath(loc[p].root) IN
       /\ fs' = [fs EXCEPT ![learning_path] =
                     WriteText(fs[learning_path], AppendedText(loc[p].content, loc[p].entry))]
       /\ loc' = [loc EXCEPT ![p].stdout = <<PathStr(learning_path)>>]
    /\ pc' = [pc EXCEPT ![p] = "done"]
    /\ UNCHANGED <<today, midnights, calls, last, hist, origin>>

\* lines 33-34, then 36 and 63-64: write header + entry, print the path
WriteCreated(p) ==
    /\ pc[p] = "create"
    /\ LET learning_path == LearningPath(loc[p].root) IN
       /\ fs' = [fs EXCEPT ![learning_path] =
                     WriteText(fs[learning_path], CreatedText(loc[p].entry))]
       /\ loc' = [loc EXCEPT ![p].stdout = <<PathStr(learning_path)>>]
    /\ pc' = [pc EXCEPT ![p] = "done"]
    /\ UNCHANGED <<today, midnights, calls, last, hist, origin>>

InitRace == InitWith(RaceInitFiles)

NextRace ==
    \E p \in Procs :
        \/ \E arg \in RaceRootArgs, args \in RaceTextArgs : Begin(p, arg, args)
        \/ CheckExists(p)
        \/ ReadContent(p)
        \/ WriteAppended(p)
        \/ WriteCreated(p)

SpecRace == InitRace /\ [][NextRace]_vars

\* ====================================================== properties
\* Vocabulary of the properties, stated independently of the operators the
\* actions use.

\* the substring the tests count (test_add_learning_entry.py line 67)
EntryMarker == SubSeq(HeadingPrefix, 1, Len(HeadingPrefix) - 1)
Heading(d) == HeadingPrefix \o Isoformat(d)

\* t is raw without its leading and trailing whitespace
IsTrimOf(t, raw, i, j) ==
    /\ t = SubSeq(raw, i, j)
    /\ \A k \in 1..(i - 1) : IsSpace(raw[k])
    /\ \A k \in (j + 1)..Len(raw) : IsSpace(raw[k])
    /\ t # <<>> => ~IsSpace(t[1]) /\ ~IsSpace(t[Len(t)])

TrimOf(raw) ==
    LET ij == CHOOSE ij \in (1..(Len(raw) + 1)) \X (0..Len(raw)) :
                  IsTrimOf(SubSeq(raw, ij[1], ij[2]), raw, ij[1], ij[2])
    IN  SubSeq(raw, ij[1], ij[2])

Line(prefix, text) == prefix \o text \o <<NL>>

\* the five lines of an entry, each ended by one newline
EntryLines(d, args) ==
    Line(HeadingPrefix, Isoformat(d)) \o Line(DatePrefix, Isoformat(d))
        \o Line(TriggerPrefix, TrimOf(args.trigger))
        \o Line(PatternPrefix, TrimOf(args.pattern))
        \o Line(ActionPrefix, TrimOf(args.action))

\* text stands in s between two line breaks (or the ends of s)
HasLine(s, text) ==
    \E i \in 1..(Len(s) - Len(text) + 1) :
        /\ SubSeq(s, i, i + Len(text) - 1) = text
        /\ i = 1 \/ s[i - 1] = NL
        /\ i + Len(text) - 1 = Len(s) \/ s[i + Len(text)] = NL

\* occurrences of pat brought in by the trimmed texts themselves
CountInTexts(pat, args) ==
    Count(pat, TrimOf(args.trigger)) + Count(pat, TrimOf(args.pattern)) + Count(pat, TrimOf(args.action))

\* the number of newlines s ends with
TrailingNewlines(s) ==
    CHOOSE n \in 0..Len(s) :
        /\ \A k \in (Len(s) - n + 1)..Len(s) : s[k] = NL
        /\ n < Len(s) => s[Len(s) - n] # NL

LastPath == LearningPath(last.root)
Before == last.before[LastPath]
After == fs[LastPath]
Created == last.kind = "ok" /\ ~last.existed
Appended == last.kind = "ok" /\ last.existed

\* ------------------------------------------------------------------- C1
\* C1 as claimed: after an invocation on a valid root without learning.md
\* the file exists, is exactly header line, blank line, entry block, and holds
\* exactly one "## Learning Entry - <today>" heading and the trimmed trigger line.
C1_AsClaimed ==
    Created =>
        /\ After.exists
        /\ After.bytes = Line(HeaderLine, <<>>) \o <<NL>> \o last.entry
        /\ Count(Heading(last.date), After.bytes) = 1
        /\ HasLine(After.bytes, TriggerPrefix \o TrimOf(last.args.trigger))

\* C1 amended: as C1, the heading occurring once for the entry itself and once
\* more for every occurrence inside the trimmed trigger, pattern and action.
C1_Created ==
    Created =>
        /\ After.exists
        /\ After.bytes = Line(HeaderLine, <<>>) \o <<NL>> \o EntryLines(last.date, last.args)
        /\ SubSeq(After.bytes, 1, Len(HeaderLine) + 2) = HeaderLine \o <<NL, NL>>
        /\ Count(Heading(last.date), After.bytes)
               = 1 + CountInTexts(Heading(last.date), last.args)
        /\ HasLine(After.bytes, TriggerPrefix \o TrimOf(last.args.trigger))

C1_Witness ==
    /\ Created
    /\ last.args = Spaced
    /\ After.exists
    /\ Count(Heading(last.date), After.bytes) = 1

\* ------------------------------------------------------------------- C2
\* C2: after an invocation on an existing learning.md the new content is the
\* old bytes, then the separator, then exactly one entry block.
C2_PriorBytesKept ==
    Appended =>
        \E sep \in {<<>>, <<NL>>, <<NL, NL>>} :
            After.bytes = Before.bytes \o sep \o last.entry

\* ------------------------------------------------------------------- C3
\* C3 as claimed: an invocation on an existing learning.md with N occurrences
\* of "## Learning Entry -" leaves exactly N+1, and the trimmed trigger line.
C3_AsClaimed ==
    Appended =>
        /\ Count(EntryMarker, After.bytes) = Count(EntryMarker, Before.bytes) + 1
        /\ HasLine(After.bytes, TriggerPrefix \o TrimOf(last.args.trigger))

\* C3 amended: the count grows by one for the new heading plus the occurrences
\* of the substring inside the trimmed trigger, pattern and action.
C3_OneMoreEntry ==
    Appended =>
        /\ Count(EntryMarker, After.bytes)
               = Count(EntryMarker, Before.bytes) + 1 + CountInTexts(EntryMarker, last.args)
        /\ HasLine(After.bytes, TriggerPrefix \o TrimOf(last.args.trigger))

C3_Witness ==
    /\ Appended
    /\ Count(EntryMarker, Before.bytes) = 1
    /\ Count(EntryMarker, After.bytes) = 2

\* ------------------------------------------------------------------- C4
\* C4: a root argument that does not exist or is not a directory ends in
\* "Invalid --repo-root directory: <resolved path>" with a non-zero exit,
\* nothing printed and the filesystem as it was.
C4_InvalidRoot ==
    LET root == Resolve(last.arg) IN
    (last.kind # "none" /\ (root \notin Dirs \cup RegularFiles \/ root \notin Dirs)) =>
        /\ last.exit # 0
        /\ last.stderr = <<InvalidRootMessage \o PathStr(root)>>
        /\ last.stdout = <<>>
        /\ fs = last.before

C4_Witness ==
    /\ last.kind = "invalid"
    /\ last.root \in RegularFiles
    /\ calls = MaxCalls
    /\ fs[RepoLog].exists

\* ------------------------------------------------------------------- C5
\* C5: after an append there is at most one blank line between the old
\* content and the new heading, and a line break right before the heading.
C5_SeamClean ==
    Appended =>
        LET b == After.bytes
            start == Len(b) - Len(last.entry) + 1
            run == CHOOSE n \in 0..(start - 1) :
                       /\ \A k \in (start - n)..(start - 1) : b[k] = NL
                       /\ n < start - 1 => b[start - 1 - n] # NL
            blank == IF run = start - 1 THEN run ELSE run - 1
        IN  /\ blank <= 1
            /\ start > 1 => b[start - 1] = NL

\* ------------------------------------------------------------------- C6
\* C6: two invocations with the same trigger, pattern and action on the same
\* day, starting without learning.md, leave two entry blocks, both kept.
C6_NotIdempotent ==
    (/\ ~origin[RepoLog].exists
     /\ Len(hist) = 2
     /\ hist[1].args = hist[2].args
     /\ hist[1].date = hist[2].date) =>
        Count(EntryLines(hist[1].date, hist[1].args), fs[RepoLog].bytes) = 2

\* ------------------------------------------------------------------- C7
\* C7 as claimed: the entry block is the five lines in order and ends with
\* two newline characters.
C7_AsClaimed ==
    last.kind = "ok" => last.entry = EntryLines(last.date, last.args) \o <<NL>>

\* C7 amended: the entry block is the five lines in order, each ended by one
\* newline; it ends with exactly one newline and holds no blank line after
\* the Action line.
C7_EntryBlock ==
    last.kind = "ok" =>
        /\ last.entry = EntryLines(last.date, last.args)
        /\ TrailingNewlines(last.entry) = 1

C7_Witness ==
    /\ last.kind = "ok"
    /\ last.args = Spaced
    /\ EndsWith(last.entry, ActionPrefix \o <<"c", NL>>)

Finished == \A p \in Procs : pc[p] \in {"done", "failed"}
Succeeded == { p \in Procs : pc[p] = "done" }
Gained == Count(EntryMarker, fs[RepoLog].bytes) - Count(EntryMarker, origin[RepoLog].bytes)

\* C9: however concurrent invocations interleave, the header is never in
\* the file twice, and once all have finished the file holds at least one
\* and at most as many new headings as invocations succeeded (an entry may
\* be lost: see C9_Witness).
C9_Race ==
    /\ Count(HeaderLine, fs[RepoLog].bytes) <= 1
    /\ (Finished /\ Succeeded # {}) =>
           /\ fs[RepoLog].exists
           /\ Gained >= 1
           /\ Gained <= Cardinality(Succeeded)

\* two invocations found no learning.md, both wrote, one entry survives
C9_Witness ==
    /\ Finished
    /\ ~origin[RepoLog].exists
    /\ \E p, q \in Succeeded :
           /\ p # q
           /\ ~loc[p].existed /\ ~loc[q].existed
           /\ loc[p].entry # loc[q].entry
           /\ fs[RepoLog].bytes = HeaderLine \o <<NL, NL>> \o loc[q].entry
    /\ Gained = 1

\* ------------------------------------------------------------------ C10
RECURSIVE Blocks(_, _)
Blocks(h, i) ==
    IF i > Len(h) THEN <<>>
    ELSE (IF i > 1 THEN <<NL>> ELSE <<>>) \o EntryLines(h[i].date, h[i].args) \o Blocks(h, i + 1)

\* C10: starting without learning.md, after k invocations the file is the
\* header, a blank line, then the k entry blocks in invocation order with
\* one blank line between consecutive entries.
C10_SequentialLog ==
    (~origin[RepoLog].exists /\ Len(hist) >= 1) =>
        fs[RepoLog].bytes = HeaderLine \o <<NL, NL>> \o Blocks(hist, 1)

====
